---- MODULE Spec2Model ----
(***************************************************************************)
(* Zen Garden product showcase (src/animation.js).                         *)
(*                                                                         *)
(* The model covers the initialization handler (loadProducts with its      *)
(* try/catch, setupScene, createPages, renderPaginationIndicators,         *)
(* startShowcase), the page sequencer (animatePage, the entrance timeline  *)
(* completion, the idle delayed call, animateExit and its completion) and  *)
(* the ripple spawner (interval tick, ripple timeline completion).         *)
(*                                                                         *)
(* Timers and timeline completions are callbacks of a single-threaded      *)
(* event loop: each callback is one atomic action, and the callbacks that  *)
(* are scheduled may run in any order.  The page is assumed to provide the *)
(* containers the script looks up (products-container, ripples-container,  *)
(* pagination-indicators), and the fetched document is an array of         *)
(* products or null.                                                       *)
(***************************************************************************)
EXTENDS Integers, Sequences, FiniteSets

VARIABLES
  pc,                \* position of the DOMContentLoaded handler
  loadFailed,        \* history: the catch block of loadProducts has run
  products,          \* state.products
  pages,             \* state.pages
  currentPageIndex,  \* state.currentPageIndex
  isTransitioning,   \* state.isTransitioning
  dots,              \* #pagination-indicators: one "active" flag per dot
  container,         \* #products-container: the rendered product elements
  positions,         \* history: the array the last getPositions call returned
  lastCount,         \* history: the argument of the last getPositions call
  pending,           \* sequencer callbacks scheduled and not yet run
  idling,            \* startIdleAnimation has run for the rendered elements
  animatePageCalls,  \* history: number of animatePage calls (saturating)
  rippleInterval,    \* the setInterval of startRippleEffect is installed
  ripples            \* #ripples-container children.length

vars == <<pc, loadFailed, products, pages, currentPageIndex, isTransitioning,
          dots, container, positions, lastCount, pending, idling,
          animatePageCalls, rippleInterval, ripples>>

----------------------------------------------------------------------------
\* Bounds of the model

MaxProducts == 7

MaxCalls == 6

MaxPageSize == 5

ProductIds == {"tea", "bowl"}

ProductLists == UNION {[1..n -> ProductIds] : n \in 0..MaxProducts}

\* What response.json() can resolve to: an array of products, or null.
JsonData ==
  {[null |-> TRUE, items |-> <<>>]} \cup
  {[null |-> FALSE, items |-> l] : l \in ProductLists}

----------------------------------------------------------------------------
\* CONFIG

\* A page size beyond the layout table.
itemsPerPageFive == 3 + 2

itemsPerPage == 3

canvasWidth == 1920

canvasHeight == 1080

\* The guard constant of the ripple spawner: it returns when length > 6.
RippleGuard == 6

----------------------------------------------------------------------------
\* Helpers

Min(a, b) == IF a < b THEN a ELSE b

\* Array.prototype.slice(from, to) with 0-based bounds, 0 <= from <= to.
Slice(s, from, to) ==
  [k \in 1..(Min(to, Len(s)) - from) |-> s[from + k]]

\* data || []  (an empty array is truthy, null is not)
OrEmpty(data) == IF data.null THEN <<>> ELSE data.items

----------------------------------------------------------------------------
\* createPages: for (i = 0; i < length; i += n) pages.push(slice(i, i + n))

RECURSIVE CreatePagesLoop(_, _, _, _)
CreatePagesLoop(prods, n, i, acc) ==
  IF i < Len(prods)
    THEN CreatePagesLoop(prods, n, i + n, Append(acc, Slice(prods, i, i + n)))
    ELSE acc

\* A loop bound of i <= length, which pushes a trailing empty page whenever
\* the length is a multiple of n.
RECURSIVE CreatePagesLoopInclusive(_, _, _, _)
CreatePagesLoopInclusive(prods, n, i, acc) ==
  IF i <= Len(prods)
    THEN CreatePagesLoopInclusive(prods, n, i + n,
                                  Append(acc, Slice(prods, i, i + n)))
    ELSE acc

CreatePagesInclusive(prods, n) == CreatePagesLoopInclusive(prods, n, 0, <<>>)

CreatePages(prods, n) == CreatePagesLoop(prods, n, 0, <<>>)

\* renderPaginationIndicators: dots only when there is more than one page,
\* the first one active.
RenderPaginationIndicators(pgs) ==
  IF Len(pgs) > 1 THEN [i \in 1..Len(pgs) |-> i = 1] ELSE <<>>

----------------------------------------------------------------------------
\* getPositions

\* w * 0.35 and the like: the products are whole pixels for every factor of
\* the table.
Pct(n, p) == (n * p) \div 100

Layouts ==
  LET w == canvasWidth
      h == canvasHeight
  IN  [c \in 1..4 |->
        CASE c = 1 -> << [x |-> Pct(w, 50), y |-> Pct(h, 50)] >>
          [] c = 2 -> << [x |-> Pct(w, 35), y |-> Pct(h, 50)],
                         [x |-> Pct(w, 65), y |-> Pct(h, 50)] >>
          [] c = 3 -> << [x |-> Pct(w, 20), y |-> Pct(h, 55)],
                         [x |-> Pct(w, 50), y |-> Pct(h, 45)],
                         [x |-> Pct(w, 80), y |-> Pct(h, 55)] >>
          [] c = 4 -> << [x |-> Pct(w, 20), y |-> Pct(h, 45)],
                         [x |-> Pct(w, 40), y |-> Pct(h, 60)],
                         [x |-> Pct(w, 60), y |-> Pct(h, 35)],
                         [x |-> Pct(w, 80), y |-> Pct(h, 50)] >>]

\* layouts[count] is defined
HasLayout(count) == count \in DOMAIN Layouts

\* The fallback: x = w * (0.2 + i * 0.6 / (count - 1)), rounded down to a
\* whole pixel here; y = h * 0.5 -+ 40.  It divides by count - 1.
FallbackPositions(count) ==
  [k \in 1..count |->
    LET i == k - 1
    IN  [x |-> (canvasWidth * (20 * (count - 1) + 60 * i))
                 \div (100 * (count - 1)),
         y |-> Pct(canvasHeight, 50) + (IF i % 2 = 0 THEN -40 ELSE 40)]]

GetPositions(count) ==
  IF ~HasLayout(count) THEN FallbackPositions(count) ELSE Layouts[count]

----------------------------------------------------------------------------
\* animatePage

\* The elements appended for a page: one per product, at its position.
PageElements(pageProducts, pos) ==
  [i \in 1..Len(pageProducts) |->
    [product |-> pageProducts[i], left |-> pos[i].x, top |-> pos[i].y]]

\* The container without the reset of innerHTML.
RenderPageKeepOld(old, pageProducts, pos) ==
  old \o PageElements(pageProducts, pos)

\* container.innerHTML = '' followed by the appendChild calls
RenderPage(old, pageProducts, pos) == PageElements(pageProducts, pos)

\* dot.classList.toggle('active', i === pageIndex) for every dot
ToggleDots(ds, pageIndex) == [i \in DOMAIN ds |-> (i - 1) = pageIndex]

Continuation(kind, page) == [kind |-> kind, page |-> page]

\* Scheduling the idle delayed call together with the entrance timeline
\* instead of from its onComplete.
ScheduledByAnimatePageEager(pageIndex, pgs) ==
  {Continuation("entrance", pageIndex)} \cup
  (IF Len(pgs) > 1 THEN {Continuation("idle", pageIndex)} ELSE {})

\* What animatePage schedules: the entrance timeline with its onComplete.
ScheduledByAnimatePage(pageIndex, pgs) == {Continuation("entrance", pageIndex)}

\* animatePage(pageIndex), run with page sequence pgs and indicator dots ds
\* while the callbacks in rest remain scheduled.  Reading a page that does
\* not exist gives undefined, and pageProducts.length then throws after the
\* state and the indicators have been updated.
AnimatePage(pageIndex, pgs, ds, rest) ==
  /\ isTransitioning' = TRUE
  /\ currentPageIndex' = pageIndex
  /\ dots' = ToggleDots(ds, pageIndex)
  /\ animatePageCalls' = Min(animatePageCalls + 1, MaxCalls)
  /\ IF pageIndex + 1 \in DOMAIN pgs
       THEN LET pageProducts == pgs[pageIndex + 1]
                pos == GetPositions(Len(pageProducts))
            IN  /\ lastCount' = Len(pageProducts)
                /\ positions' = pos
                /\ container' = RenderPage(container, pageProducts, pos)
                /\ pending' = rest \cup ScheduledByAnimatePage(pageIndex, pgs)
                /\ idling' = FALSE
       ELSE /\ pending' = rest
            /\ UNCHANGED <<lastCount, positions, container, idling>>

----------------------------------------------------------------------------
\* Initialization

Init ==
  /\ pc = "start"
  /\ loadFailed = FALSE
  /\ products = <<>>
  /\ pages = <<>>
  /\ currentPageIndex = 0
  /\ isTransitioning = FALSE
  /\ dots = <<>>
  /\ container = <<>>
  /\ positions = <<>>
  /\ lastCount = 0
  /\ pending = {}
  /\ idling = FALSE
  /\ animatePageCalls = 0
  /\ rippleInterval = FALSE
  /\ ripples = 0

sequencerVars == <<pages, currentPageIndex, isTransitioning, dots, container,
                   positions, lastCount, pending, idling, animatePageCalls>>

rippleVars == <<rippleInterval, ripples>>

\* The handler starts and loadProducts issues the fetch.
DOMContentLoaded ==
  /\ pc = "start"
  /\ pc' = "fetch"
  /\ UNCHANGED <<loadFailed, products, sequencerVars, rippleVars>>

\* fetch resolves with a response; response.json() is awaited next.
FetchResolves ==
  /\ pc = "fetch"
  /\ pc' = "json"
  /\ UNCHANGED <<loadFailed, products, sequencerVars, rippleVars>>

\* Without the try/catch the rejection leaves loadProducts and rejects the
\* handler at its await.
LoadProductsNoCatch ==
  /\ pc' = "rejected"
  /\ loadFailed' = TRUE
  /\ UNCHANGED products

\* catch (error) { state.products = []; }
LoadProductsCatch ==
  /\ products' = <<>>
  /\ loadFailed' = TRUE
  /\ pc' = "loaded"

\* fetch rejects (network error).
FetchRejects ==
  /\ pc = "fetch"
  /\ LoadProductsCatch
  /\ UNCHANGED <<sequencerVars, rippleVars>>

\* response.json() rejects (the body is not JSON).
JsonRejects ==
  /\ pc = "json"
  /\ LoadProductsCatch
  /\ UNCHANGED <<sequencerVars, rippleVars>>

\* response.json() resolves: state.products = data || []
JsonResolves ==
  /\ pc = "json"
  /\ \E data \in JsonData : products' = OrEmpty(data)
  /\ pc' = "loaded"
  /\ UNCHANGED <<loadFailed, sequencerVars, rippleVars>>

\* The rest of the handler after await loadProducts(): setupScene installs
\* the ripple interval; with products, createPages,
\* renderPaginationIndicators and startShowcase (animatePage(0)) follow.
InitContinue ==
  /\ pc = "loaded"
  /\ pc' = "done"
  /\ rippleInterval' = TRUE
  /\ UNCHANGED <<loadFailed, products, ripples>>
  /\ IF Len(products) > 0
       THEN LET pgs == CreatePages(products, itemsPerPage)
            IN  /\ pages' = pgs
                /\ AnimatePage(0, pgs, RenderPaginationIndicators(pgs), pending)
       ELSE UNCHANGED sequencerVars

----------------------------------------------------------------------------
\* Page sequencer callbacks

\* Scheduling the exit whenever there is a page at all.
ExitScheduledAlways(pgs) == Len(pgs) >= 1

\* Scheduling the exit only from three pages on.
ExitScheduledOverTwo(pgs) == Len(pgs) > 2

\* if (state.pages.length > 1): the exit is scheduled
ExitScheduled(pgs) == Len(pgs) > 1

\* onComplete of the entrance timeline: startIdleAnimation, then the
\* delayed call of animateExit when there are several pages.
EntranceComplete ==
  \E c \in pending :
    /\ c.kind = "entrance"
    /\ idling' = TRUE
    /\ pending' = (pending \ {c}) \cup
                  (IF ExitScheduled(pages)
                     THEN {Continuation("idle", c.page)} ELSE {})
    /\ UNCHANGED <<pc, loadFailed, products, pages, currentPageIndex,
                   isTransitioning, dots, container, positions, lastCount,
                   animatePageCalls, rippleVars>>

\* The delayed call fires after pageDuration: animateExit(elements) creates
\* the exit timeline.
IdleTimerFires ==
  \E c \in pending :
    /\ c.kind = "idle"
    /\ pending' = (pending \ {c}) \cup {Continuation("exit", c.page)}
    /\ UNCHANGED <<pc, loadFailed, products, pages, currentPageIndex,
                   isTransitioning, dots, container, positions, lastCount,
                   idling, animatePageCalls, rippleVars>>

\* Advancing without the wrap-around.
NextIndexNoWrap(current, n) == current + 1

\* Staying on the same page.
NextIndexStuck(current, n) == current % n

\* (state.currentPageIndex + 1) % state.pages.length
NextIndex(current, n) == (current + 1) % n

\* onComplete of the exit timeline: animatePage(nextIndex)
ExitComplete ==
  \E c \in pending :
    /\ c.kind = "exit"
    /\ AnimatePage(NextIndex(currentPageIndex, Len(pages)), pages, dots,
                   pending \ {c})
    /\ UNCHANGED <<pc, loadFailed, products, pages, rippleVars>>

----------------------------------------------------------------------------
\* Ripple spawner

\* The interval callback: return when children.length > 6, else append a
\* ripple and start its timeline.
RippleTick ==
  /\ rippleInterval
  /\ ripples' = IF ripples > RippleGuard THEN ripples ELSE ripples + 1
  /\ UNCHANGED <<pc, loadFailed, products, sequencerVars, rippleInterval>>

\* onComplete of a ripple timeline: ripple.remove()
RippleComplete ==
  /\ ripples > 0
  /\ ripples' = ripples - 1
  /\ UNCHANGED <<pc, loadFailed, products, sequencerVars, rippleInterval>>

----------------------------------------------------------------------------

Next ==
  \/ DOMContentLoaded
  \/ FetchResolves
  \/ FetchRejects
  \/ JsonResolves
  \/ JsonRejects
  \/ InitContinue
  \/ EntranceComplete
  \/ IdleTimerFires
  \/ ExitComplete
  \/ RippleTick
  \/ RippleComplete

Spec == Init /\ [][Next]_vars

\* Every scheduled timeline completion and delayed call eventually runs.
FairSpec ==
  /\ Spec
  /\ WF_vars(EntranceComplete)
  /\ WF_vars(IdleTimerFires)
  /\ WF_vars(ExitComplete)

----------------------------------------------------------------------------
\* The paginator on its own: createPages applied to any product list,
\* the empty one included.

PaginatorInit ==
  /\ pc = "loaded"
  /\ loadFailed = FALSE
  /\ products \in ProductLists
  /\ pages = <<>>
  /\ currentPageIndex = 0
  /\ isTransitioning = FALSE
  /\ dots = <<>>
  /\ container = <<>>
  /\ positions = <<>>
  /\ lastCount = 0
  /\ pending = {}
  /\ idling = FALSE
  /\ animatePageCalls = 0
  /\ rippleInterval = FALSE
  /\ ripples = 0

CreatePagesStep ==
  /\ pc = "loaded"
  /\ pages' = CreatePages(products, itemsPerPage)
  /\ pc' = "paged"
  /\ UNCHANGED <<loadFailed, products, currentPageIndex, isTransitioning,
                 dots, container, positions, lastCount, pending, idling,
                 animatePageCalls, rippleVars>>

PaginatorNext == CreatePagesStep

PaginatorSpec == PaginatorInit /\ [][PaginatorNext]_vars

----------------------------------------------------------------------------
\* Phases of the sequencer, read off the scheduled callbacks

Entering == \E c \in pending : c.kind = "entrance"

Exiting == \E c \in pending : c.kind = "exit"

Idle == idling /\ ~Exiting

MaxPages == (MaxProducts + itemsPerPage - 1) \div itemsPerPage

----------------------------------------------------------------------------
\* Properties

RECURSIVE Flatten(_)
Flatten(pgs) == IF pgs = <<>> THEN <<>> ELSE Head(pgs) \o Flatten(Tail(pgs))

CeilDiv(m, n) == (m + n - 1) \div n

Paginated(prods, pgs, n) ==
  /\ Len(pgs) = CeilDiv(Len(prods), n)
  /\ \A i \in 1..(Len(pgs) - 1) : Len(pgs[i]) = n
  /\ Len(pgs) > 0 => Len(pgs[Len(pgs)]) \in 1..n
  /\ Flatten(pgs) = prods

\* C1: for every product list of length M and page size N, createPages
\* yields ceil(M/N) pages, every page but possibly the last has N items,
\* and the pages concatenated in order are the product list; the empty list
\* yields no page.  Checked for the pages createPages stored with the
\* program's page size and for every page size up to MaxPageSize.
C1_PagesPartitionProducts ==
  /\ pc = "paged" => Paginated(products, pages, itemsPerPage)
  /\ \A n \in 1..MaxPageSize :
       Paginated(products, CreatePages(products, n), n)
  /\ (pc = "paged" /\ products = <<>>) => pages = <<>>

C1_Witness ==
  /\ pc = "paged"
  /\ Len(products) = 7
  /\ Len(pages) = 3
  /\ Len(pages[3]) = 1

\* C2: with exactly one page the sequencer goes Entering then Idle and
\* stays there: the only callback ever scheduled is the entrance
\* completion, animatePage has run once, and once nothing is scheduled the
\* page idles.
C2_SinglePageNeverExits ==
  Len(pages) = 1 =>
    /\ \A c \in pending : c.kind = "entrance"
    /\ ~Exiting
    /\ animatePageCalls = 1
    /\ Entering \/ (Idle /\ pending = {})

C2_Witness == Len(pages) = 1 /\ Idle /\ pending = {} /\ pc = "done"

\* C3: with P > 1 pages the k-th call of animatePage shows page
\* (k - 1) mod P: page 0 first, then 1, ..., P - 1, then 0 again after
\* exactly P transitions.
C3_PagesCycleInOrder ==
  (Len(pages) > 1 /\ animatePageCalls < MaxCalls) =>
    currentPageIndex = (animatePageCalls - 1) % Len(pages)

C3_Witness ==
  /\ Len(pages) = 3
  /\ animatePageCalls = Len(pages) + 1
  /\ currentPageIndex = 0

\* C4 (as claimed): the ripples container never holds more than 6 ripples.
C4_RipplesAtMostSix == ripples <= 6

\* C5: after a failed fetch or parse the product list is empty, the
\* handler is not rejected, and the showcase is never started: no pages, no
\* indicators, no animatePage call, nothing rendered, nothing scheduled.
C5_LoadFailureShowsNothing ==
  loadFailed =>
    /\ products = <<>>
    /\ pc \in {"loaded", "done"}
    /\ pages = <<>>
    /\ dots = <<>>
    /\ animatePageCalls = 0
    /\ container = <<>>
    /\ pending = {}
    /\ ~idling

C5_Witness == loadFailed /\ pc = "done" /\ rippleInterval /\ ripples > 0

\* C6 (as claimed): in every reachable state 0 <= currentPageIndex < number
\* of pages.
C6_IndexAlwaysValid == currentPageIndex \in 0..(Len(pages) - 1)

\* C6 (amended): whenever the page sequence is non-empty currentPageIndex
\* is a valid index into it; while it is empty currentPageIndex is 0.
C6_IndexValidOncePaged ==
  IF Len(pages) > 0
    THEN currentPageIndex \in 0..(Len(pages) - 1)
    ELSE currentPageIndex = 0

C6_Witness == Len(pages) = 3 /\ currentPageIndex = 2 /\ Exiting

\* C7: at most one sequencer callback is scheduled at any time, and once
\* the showcase has started exactly one of Entering, Idle, Exiting holds.
C7_OneContinuationPending ==
  /\ Cardinality(pending) <= 1
  /\ animatePageCalls > 0 =>
       /\ Entering \/ Idle \/ Exiting
       /\ ~(Entering /\ Idle)
       /\ ~(Entering /\ Exiting)
       /\ ~(Idle /\ Exiting)

C7_Witness ==
  /\ animatePageCalls >= 2
  /\ pending = {Continuation("entrance", 1)}

\* C8: with more than one page, under fair scheduling of the callbacks,
\* the sequencer always eventually leaves its current page and every page
\* is entered again and again.
C8_SequencerNeverStops ==
  \A i \in 0..(MaxPages - 1) :
    /\ (Len(pages) > 1 /\ currentPageIndex = i) ~> (currentPageIndex # i)
    /\ (Len(pages) > 1 /\ i < Len(pages)) ~> (currentPageIndex = i /\ Entering)

C8_Witness ==
  /\ Len(pages) = 2
  /\ animatePageCalls = 3
  /\ currentPageIndex = 0
  /\ Idle

\* C9: after every animatePage call the products container holds exactly
\* the elements of the current page, one per product, in page order, at the
\* positions getPositions returned.
C9_ContainerShowsCurrentPage ==
  animatePageCalls > 0 =>
    /\ currentPageIndex + 1 \in DOMAIN pages
    /\ Len(container) = Len(pages[currentPageIndex + 1])
    /\ \A i \in 1..Len(container) :
         /\ container[i].product = pages[currentPageIndex + 1][i]
         /\ container[i].left = positions[i].x
         /\ container[i].top = positions[i].y

C9_Witness ==
  /\ Len(pages) = 2
  /\ currentPageIndex = 1
  /\ Len(pages[1]) = 3
  /\ Len(container) = 1

\* C10: every getPositions call of the sequencer gets a count in
\* 1..itemsPerPage, which the layout table covers, so the fallback is not
\* used, and it returns one position per product of the page.  (3 is the
\* page size of CONFIG.)
C10_GetPositionsUsesTable ==
  /\ \A i \in DOMAIN pages : Len(pages[i]) \in 1..3
  /\ animatePageCalls > 0 =>
       /\ lastCount \in 1..3
       /\ HasLayout(lastCount)
       /\ positions = Layouts[lastCount]
       /\ Len(positions) = lastCount
       /\ lastCount = Len(pages[currentPageIndex + 1])

C10_Witness ==
  /\ animatePageCalls > 1
  /\ lastCount = 1
  /\ Len(positions) = 1

====
